---- MODULE Spec2Model ----
(***************************************************************************)
(* Model of the study-timetable generator of modules/scheduler.py:         *)
(* calculate_subject_distribution (the weakness ranker) and                *)
(* generate_smart_timetable (the timetable builder).                       *)
(*                                                                         *)
(* Times are minutes counted from midnight of "today" (datetime.combine    *)
(* of today's date with a time of day); a datetime past midnight is a      *)
(* value >= 1440.  A slot's 'time' string is built with strftime('%H:%M'), *)
(* which keeps the time of day only: the model keeps the two minute-of-day *)
(* values (HHMM).  Durations, which the code stores in hours, are kept in  *)
(* minutes (hours * 60).                                                   *)
(*                                                                         *)
(* np.random is one generator for the whole process: rng is its state,    *)
(* named by the last seed given to it and the shuffles drawn from it since *)
(* (the state after seed(s) and shuffles of n1, n2, .. elements is a       *)
(* function of s, n1, n2, ..).                                             *)
(*                                                                         *)
(* show(), the scheduler page, is modelled by the counts of the records   *)
(* of the CSV store, the keys of st.session_state and what the last run of *)
(* the script rendered.                                                    *)
(***************************************************************************)
EXTENDS Integers, Sequences, FiniteSets, TLC

VARIABLES predictions, cfg, pc, days_per_subject, subject_pool, pool_index,
          day, subject_assignments, attempts, timetable, error,
          rng, rng_at_call, history,
          page, store_records, store_completed, session_state, displayed

\* arguments, locals and result of one call of generate_smart_timetable
call_vars == <<predictions, cfg, pc, days_per_subject, subject_pool, pool_index,
               day, subject_assignments, attempts, timetable, error>>

\* the process-global generator, its state when the call began, and the
\* calls completed before
generator_vars == <<rng, rng_at_call, history>>

\* the page on screen, the CSV store, st.session_state, the last rendering
page_vars == <<page, store_records, store_completed, session_state, displayed>>

vars == <<call_vars, generator_vars, page_vars>>

(***************************************************************************)
(* Bounds of the enumerated inputs.                                        *)
(***************************************************************************)
MaxSubjects == 3

MaxSessionsRequested == 5

MaxRecords == 6

(***************************************************************************)
(* Program constants.                                                      *)
(***************************************************************************)
total_days == 6

DefaultDaysAsTotal == total_days

DefaultDays == 3

MinDays == 1

MaxDays == 6

SessionCap == 4

MinSessionsRequested == 2

\* the cap on the day's sessions taken for the cap on one subject
MaxSameAsSessionCap == SessionCap

MaxSamePerDay == 2

AttemptBudget == 20

MealLookahead == 30

FillerMinimum == 60

NLargestCount == 3

RevisionMinutes == 90

SundayBreakMinutes == 30

AssessmentAsRevision == RevisionMinutes

AssessmentMinutes == 120

MinutesPerDay == 1440

StudyDays == 6

Sunday == 7

ShuffleSeed == 42

MinRecords == 5

MinCompleted == 3

(***************************************************************************)
(* Input domains.  Subjects are distinct (the caller builds one prediction *)
(* per value of data['subject'].unique()); the rows come in any order, and *)
(* the prediction set may be empty (a frame with its columns and no row).  *)
(* The slider of max_sessions_per_day starts at 2.                         *)
(***************************************************************************)
SubjectNames == <<"Math", "History", "Physics", "Chemistry", "Biology">>

WeaknessValues == {0, 1, 2, 240}

WakeTimes == {360}

SleepTimes == {1380, 1245, 60}

BreakDurations == {30}

SessionDurations == {60, 120}

BreakfastTimes == {390, 450, 660}

BreakfastDurations == {30}

LunchTimes == {780}

LunchDurations == {60}

DinnerTimes == {1200}

DinnerDurations == {45}

MorningRoutines == {45}

\* seeds other code of the process may have given to np.random, and the
\* lengths of the shuffles it may have drawn from it
OtherSeeds == {7}

OtherShuffles == {5}

\* final_score of a new record: 0 (exam not yet taken) or a score
FinalScores == {0, 80}

Pages == {"home", "scheduler"}

\* the values the widgets of the page start with
DefaultWidgets ==
    [wake_time |-> 360, sleep_time |-> 1380, break_duration |-> 30,
     max_sessions_per_day |-> 6, session_duration |-> 60,
     breakfast_time |-> 450, breakfast_duration |-> 30,
     lunch_time |-> 780, lunch_duration |-> 60,
     dinner_time |-> 1200, dinner_duration |-> 45,
     morning_routine |-> 45]

PredictionSets ==
    UNION { { [i \in 1..n |-> [subject |-> SubjectNames[i], weakness_score |-> w[i]]] :
                w \in [1..n -> WeaknessValues] } : n \in 0..MaxSubjects }

Configs ==
    [wake_time : WakeTimes, sleep_time : SleepTimes,
     break_duration : BreakDurations,
     max_sessions_per_day : MinSessionsRequested..MaxSessionsRequested,
     session_duration : SessionDurations,
     breakfast_time : BreakfastTimes, breakfast_duration : BreakfastDurations,
     lunch_time : LunchTimes, lunch_duration : LunchDurations,
     dinner_time : DinnerTimes, dinner_duration : DinnerDurations,
     morning_routine : MorningRoutines]

(***************************************************************************)
(* Helpers.                                                                *)
(***************************************************************************)
Min(a, b) == IF a <= b THEN a ELSE b

Max(a, b) == IF a >= b THEN a ELSE b

RECURSIVE SumWeakness(_)
SumWeakness(preds) ==
    IF preds = << >> THEN 0
    ELSE Head(preds).weakness_score + SumWeakness(Tail(preds))

\* list.count(x)
Count(s, x) == Cardinality({k \in 1..Len(s) : s[k] = x})

\* [x] * n
Repeat(x, n) == [k \in 1..n |-> x]

\* strftime('%H:%M') of a datetime: the time of day, the date is dropped
HHMM(t) == t % MinutesPerDay

(***************************************************************************)
(* calculate_subject_distribution                                          *)
(***************************************************************************)
\* round(proportion * total_days * 2): the scaled share rounded to the nearest
\* integer (halves to the even neighbour, as Python's round does)
RoundedShare(weakness, total) ==
    LET scaled == weakness * total_days * 2
        q == scaled \div total
        r == scaled % total
    IN IF 2 * r > total THEN q + 1
       ELSE IF 2 * r < total THEN q
       ELSE IF q % 2 = 0 THEN q ELSE q + 1

\* the share of the strength instead of the weakness
InvertedShare(weakness, total) == ((total - weakness) * total_days * 2) \div total

\* int(proportion * total_days * 2) with proportion = weakness / total;
\* int() truncates, and on the enumerated (integer) weaknesses the floating
\* point product equals the exact quotient below.
ScaledShare(weakness, total) == (weakness * total_days * 2) \div total

\* the clamp without its floor
DaysWithoutFloor(weakness, total) ==
    IF ScaledShare(weakness, total) <= MaxDays THEN ScaledShare(weakness, total)
    ELSE MaxDays

\* the clamp without its ceiling
DaysWithoutCeiling(weakness, total) ==
    IF ScaledShare(weakness, total) >= MinDays THEN ScaledShare(weakness, total)
    ELSE MinDays

ProportionalDays(weakness, total) ==
    Max(MinDays, Min(MaxDays, ScaledShare(weakness, total)))

calculate_subject_distribution(preds) ==
    LET total_weakness == SumWeakness(preds) IN
    IF total_weakness = 0
    THEN [k \in 1..Len(preds) |-> [subject |-> preds[k].subject, days |-> DefaultDays]]
    ELSE [k \in 1..Len(preds) |->
            [subject |-> preds[k].subject,
             days |-> ProportionalDays(preds[k].weakness_score, total_weakness)]]

(***************************************************************************)
(* The subject pool and its shuffle.                                       *)
(***************************************************************************)
RECURSIVE BuildPool(_)
BuildPool(dps) ==
    IF dps = << >> THEN << >>
    ELSE Repeat(Head(dps).subject, Head(dps).days) \o BuildPool(Tail(dps))

\* np.random.seed(42); np.random.shuffle(x): with the generator reseeded at
\* every call the permutation depends on len(x) only.  Row n is the result
\* of shuffling [1, ..., n] (MT19937 seeded with 42, Fisher-Yates from the
\* last index down, each index drawn by masked rejection sampling).
ShufflePerm == <<
    <<1>>,
    <<2, 1>>,
    <<1, 2, 3>>,
    <<2, 4, 1, 3>>,
    <<2, 5, 3, 1, 4>>,
    <<1, 2, 6, 3, 5, 4>>,
    <<1, 2, 6, 3, 5, 4, 7>>,
    <<2, 6, 1, 8, 3, 5, 4, 7>>,
    <<8, 2, 6, 1, 9, 3, 5, 4, 7>>,
    <<9, 2, 6, 1, 8, 3, 10, 5, 4, 7>>,
    <<6, 1, 10, 11, 3, 2, 9, 5, 8, 4, 7>>,
    <<11, 10, 1, 9, 6, 3, 2, 12, 5, 8, 4, 7>>,
    <<12, 10, 1, 9, 6, 3, 2, 13, 5, 8, 11, 4, 7>>,
    <<10, 12, 1, 13, 6, 9, 3, 2, 14, 5, 8, 11, 4, 7>>,
    <<10, 12, 1, 14, 6, 9, 3, 2, 15, 5, 8, 11, 13, 4, 7>>,
    <<1, 2, 6, 15, 14, 12, 9, 10, 3, 16, 5, 8, 11, 13, 4, 7>>,
    <<1, 2, 6, 16, 12, 15, 9, 14, 3, 10, 17, 5, 8, 11, 13, 4, 7>>,
    <<1, 2, 9, 6, 4, 14, 17, 16, 12, 3, 10, 18, 5, 13, 8, 11, 15, 7>>,
    <<1, 6, 12, 2, 9, 17, 4, 14, 16, 18, 3, 10, 19, 5, 13, 8, 11, 15, 7>>,
    <<1, 18, 16, 2, 9, 6, 12, 4, 19, 17, 14, 3, 10, 20, 5, 13, 8, 11, 15, 7>>,
    <<1, 18, 16, 2, 9, 6, 12, 4, 19, 17, 14, 3, 10, 21, 5, 13, 8, 11, 15, 20, 7>>,
    <<1, 14, 9, 2, 16, 6, 21, 12, 4, 5, 18, 13, 19, 17, 3, 10, 22, 8, 11, 15, 20, 7>>,
    <<16, 10, 1, 9, 18, 13, 2, 14, 6, 3, 12, 21, 4, 5, 19, 17, 22, 23, 8, 11, 15, 20, 7>>,
    <<9, 17, 1, 19, 12, 10, 14, 2, 22, 6, 3, 13, 16, 4, 5, 23, 18, 21, 24, 8, 11, 15, 20, 7>>,
    <<9, 17, 1, 24, 12, 10, 14, 2, 23, 6, 3, 13, 16, 4, 5, 21, 18, 22, 19, 25, 8, 11, 15, 20, 7>>,
    <<9, 17, 1, 25, 12, 10, 14, 2, 24, 6, 3, 13, 16, 4, 5, 22, 18, 23, 19, 26, 21, 8, 11, 15, 20, 7>>,
    <<9, 14, 10, 22, 1, 12, 17, 18, 13, 25, 2, 5, 6, 3, 16, 23, 4, 26, 24, 19, 27, 21, 8, 11, 15, 20, 7>>,
    <<10, 26, 9, 22, 1, 13, 18, 23, 12, 14, 16, 2, 5, 6, 3, 17, 24, 4, 27, 25, 19, 28, 21, 8, 11, 15, 20, 7>>,
    <<28, 17, 13, 23, 9, 10, 22, 1, 27, 14, 16, 12, 18, 2, 5, 6, 3, 25, 4, 24, 26, 19, 29, 21, 8, 11, 15, 20, 7>>,
    <<28, 16, 24, 18, 9, 10, 29, 25, 13, 1, 5, 17, 6, 14, 12, 23, 2, 3, 26, 4, 22, 27, 19, 30, 21, 8, 11, 15, 20, 7>>
>>

\* the state of the generator right after np.random.seed(seed)
Seeded(seed) == [seed |-> seed, shuffled |-> << >>]

\* the state after np.random.shuffle of n elements drawn from state g; a
\* list of fewer than 2 elements draws nothing
Shuffled(g, n) ==
    IF n < 2 THEN g ELSE [g EXCEPT !.shuffled = Append(@, n)]

\* the generator as numpy leaves it when the process starts (its seed is
\* taken from the system: the model names it 0)
GeneratorAtStartup == Seeded(0)

\* states other code of the process may have left the generator in
PriorGenerators ==
    {GeneratorAtStartup, Seeded(ShuffleSeed)}
        \cup {Seeded(s) : s \in OtherSeeds}

\* np.random.shuffle without the np.random.seed(42) before it: the order
\* follows the state other code left in the generator (the built order
\* stands for the order any state but Seeded(42) gives)
UnseededShuffle(pool) ==
    IF rng = Seeded(ShuffleSeed)
    THEN [k \in 1..Len(pool) |-> pool[ShufflePerm[Len(pool)][k]]]
    ELSE pool

\* np.random.seed(42); np.random.shuffle(subject_pool)
SeededShuffle(pool) ==
    [k \in 1..Len(pool) |-> pool[ShufflePerm[Len(pool)][k]]]

(***************************************************************************)
(* Distribution of the pool over Monday..Saturday (days 1..6).             *)
(***************************************************************************)
\* day_subjects.count(subject) <= 2
MayAddSubjectInclusive(day_subjects, subject) ==
    Count(day_subjects, subject) <= MaxSamePerDay

\* day_subjects.count(subject) < 2
MayAddSubject(day_subjects, subject) ==
    Count(day_subjects, subject) < MaxSamePerDay

\* a loop that tries the same token again after the cap turned it down, and
\* stops once the attempts have passed the budget
RECURSIVE DrawLoopRetrying(_, _, _, _, _)
DrawLoopRetrying(day_subjects, idx, att, sessions_for_day, pool) ==
    IF Len(day_subjects) < sessions_for_day /\ idx < Len(pool) /\ att <= AttemptBudget
    THEN LET subject == pool[(idx % Len(pool)) + 1] IN
         IF MayAddSubject(day_subjects, subject)
         THEN DrawLoopRetrying(Append(day_subjects, subject), idx + 1, att + 1,
                               sessions_for_day, pool)
         ELSE DrawLoopRetrying(day_subjects, idx, att + 1, sessions_for_day, pool)
    ELSE [day_subjects |-> day_subjects, pool_index |-> idx, attempts |-> att]

\* a loop that goes round the pool again when the index passes its end
RECURSIVE DrawLoopWrapping(_, _, _, _, _)
DrawLoopWrapping(day_subjects, idx, att, sessions_for_day, pool) ==
    IF Len(day_subjects) < sessions_for_day /\ Len(pool) > 0 /\ att < AttemptBudget
    THEN LET subject == pool[(idx % Len(pool)) + 1] IN
         IF MayAddSubject(day_subjects, subject)
         THEN DrawLoopWrapping(Append(day_subjects, subject), idx + 1, att + 1,
                               sessions_for_day, pool)
         ELSE DrawLoopWrapping(day_subjects, idx + 1, att + 1, sessions_for_day, pool)
    ELSE [day_subjects |-> day_subjects, pool_index |-> idx, attempts |-> att]

\* the while loop of one day; every iteration consumes one pool token
RECURSIVE DrawLoop(_, _, _, _, _)
DrawLoop(day_subjects, idx, att, sessions_for_day, pool) ==
    IF Len(day_subjects) < sessions_for_day /\ idx < Len(pool) /\ att < AttemptBudget
    THEN LET subject == pool[(idx % Len(pool)) + 1] IN
         IF MayAddSubject(day_subjects, subject)
         THEN DrawLoop(Append(day_subjects, subject), idx + 1, att + 1,
                       sessions_for_day, pool)
         ELSE DrawLoop(day_subjects, idx + 1, att + 1, sessions_for_day, pool)
    ELSE [day_subjects |-> day_subjects, pool_index |-> idx, attempts |-> att]

\* the request taken as it is, without the cap
SessionsUncapped(max_sessions_per_day) == max_sessions_per_day

SessionsForDay(max_sessions_per_day) == Min(max_sessions_per_day, SessionCap)

(***************************************************************************)
(* Time slots of one Monday..Saturday day.                                 *)
(***************************************************************************)
Slot(start_dt, end_dt, subject, type, duration) ==
    [start |-> HHMM(start_dt), end |-> HHMM(end_dt), subject |-> subject,
     type |-> type, duration |-> duration]

\* sleep after midnight
SleepDt(c) ==
    IF c.sleep_time <= c.wake_time THEN c.sleep_time + MinutesPerDay
    ELSE c.sleep_time

RoutineSlot(c, label) ==
    Slot(c.wake_time, c.wake_time + c.morning_routine, label, "Routine",
         c.morning_routine)

BreakfastSlot(c) ==
    Slot(c.breakfast_time, c.breakfast_time + c.breakfast_duration,
         "Breakfast", "Meal", c.breakfast_duration)

LunchSlot(c) ==
    Slot(c.lunch_time, c.lunch_time + c.lunch_duration, "Lunch", "Meal",
         c.lunch_duration)

DinnerSlot(c) ==
    Slot(c.dinner_time, c.dinner_time + c.dinner_duration, "Dinner", "Meal",
         c.dinner_duration)

\* current_time = meal_dt: the cursor is left at the start of the meal
MealEndNotAdvanced(meal_time, meal_duration) == meal_time

\* lunch_end / dinner_end, the value the cursor takes after a meal
MealEnd(meal_time, meal_duration) == meal_time + meal_duration

\* current_time < meal_dt < session_end or
\* (current_time < meal_dt and (meal_dt - current_time) hours < 0.5)
\* the meal taken as due by every session that ends after it, without the
\* test that the meal is still ahead
MealDueWhenBehind(current_time, meal_dt, session_end) ==
    \/ meal_dt < session_end
    \/ current_time < meal_dt /\ meal_dt - current_time < MealLookahead

MealDue(current_time, meal_dt, session_end) ==
    \/ current_time < meal_dt /\ meal_dt < session_end
    \/ current_time < meal_dt /\ meal_dt - current_time < MealLookahead

\* a break after every session, the last one of the day included
BreakFollowsEvery(i, subjects_today) == i <= Len(subjects_today)

\* "if i < len(subjects_today) - 1" (i counted from 0 there, from 1 here)
BreakFollows(i, subjects_today) == i < Len(subjects_today)

\* the for loop over subjects_today, from its i-th element (1-based) on
RECURSIVE PlaceSessions(_, _, _, _, _)
PlaceSessions(i, slots, current_time, subjects_today, c) ==
    IF i > Len(subjects_today)
    THEN [slots |-> slots, current_time |-> current_time]
    ELSE
      LET lunchDue == MealDue(current_time, c.lunch_time,
                              current_time + c.session_duration)
          slots1 == IF lunchDue THEN Append(slots, LunchSlot(c)) ELSE slots
          time1 == IF lunchDue THEN MealEnd(c.lunch_time, c.lunch_duration)
                   ELSE current_time
          dinnerDue == MealDue(time1, c.dinner_time, time1 + c.session_duration)
          slots2 == IF dinnerDue THEN Append(slots1, DinnerSlot(c)) ELSE slots1
          time2 == IF dinnerDue THEN MealEnd(c.dinner_time, c.dinner_duration)
                   ELSE time1
          session_end == time2 + c.session_duration
          slots3 == Append(slots2, Slot(time2, session_end, subjects_today[i],
                                        "Study", c.session_duration))
          hasBreak == BreakFollows(i, subjects_today)
          break_end == session_end + c.break_duration
          slots4 == IF hasBreak
                    THEN Append(slots3, Slot(session_end, break_end, "Break",
                                             "Break", c.break_duration))
                    ELSE slots3
          time4 == IF hasBreak THEN break_end ELSE session_end
      IN PlaceSessions(i + 1, slots4, time4, subjects_today, c)

\* any(slot['type'] == 'Meal' and 'Dinner' in slot['subject'] for slot in slots)
HasDinner(slots) ==
    \E k \in 1..Len(slots) : slots[k].type = "Meal" /\ slots[k].subject = "Dinner"

\* Dinner appended before the filler block instead of after it
EnsureDinnerFillerLast(slots, current_time, c) ==
    IF ~HasDinner(slots) /\ current_time < c.dinner_time
    THEN IF c.dinner_time - current_time >= FillerMinimum
         THEN Append(Append(slots, DinnerSlot(c)),
                     Slot(current_time, c.dinner_time, "Self-Study / Review",
                          "Study", c.dinner_time - current_time))
         ELSE Append(slots, DinnerSlot(c))
    ELSE slots

\* "Ensure dinner is included if not yet added"
EnsureDinner(slots, current_time, c) ==
    IF ~HasDinner(slots) /\ current_time < c.dinner_time
    THEN LET filled ==
               IF c.dinner_time - current_time >= FillerMinimum
               THEN Append(slots, Slot(current_time, c.dinner_time,
                                       "Self-Study / Review", "Study",
                                       c.dinner_time - current_time))
               ELSE slots
         IN Append(filled, DinnerSlot(c))
    ELSE slots

DaySlots(subjects_today, c) ==
    LET first == <<RoutineSlot(c, "Morning Routine (Freshen up, Exercise)"),
                   BreakfastSlot(c)>>
        placed == PlaceSessions(1, first,
                                c.breakfast_time + c.breakfast_duration,
                                subjects_today, c)
    IN EnsureDinner(placed.slots, placed.current_time, c)

(***************************************************************************)
(* Sunday: the fixed revision / assessment template.                       *)
(***************************************************************************)
RemoveAt(s, k) == SubSeq(s, 1, k - 1) \o SubSeq(s, k + 1, Len(s))

\* the row of largest weakness, the last one among equals (keep='last')
LargestRowKeepLast(preds) ==
    CHOOSE j \in 1..Len(preds) :
        /\ \A l \in 1..Len(preds) :
              preds[l].weakness_score <= preds[j].weakness_score
        /\ \A l \in (j + 1)..Len(preds) :
              preds[l].weakness_score < preds[j].weakness_score

\* the row of largest weakness, the first one among equals
LargestRow(preds) ==
    CHOOSE j \in 1..Len(preds) :
        /\ \A l \in 1..Len(preds) :
              preds[l].weakness_score <= preds[j].weakness_score
        /\ \A l \in 1..(j - 1) :
              preds[l].weakness_score < preds[j].weakness_score

\* DataFrame.nlargest(n, 'weakness_score') (keep='first'): the n rows of
\* largest weakness in descending order, equal values in input order
RECURSIVE NLargest(_, _)
NLargest(n, preds) ==
    IF n = 0 \/ preds = << >> THEN << >>
    ELSE <<preds[LargestRow(preds)]>>
         \o NLargest(n - 1, RemoveAt(preds, LargestRow(preds)))

\* the rows of an empty weakness left out of the weak subjects
WeakSubjectsPositive(preds) ==
    LET rows == SelectSeq(NLargest(NLargestCount, preds),
                          LAMBDA row : row.weakness_score > 0)
    IN [k \in 1..Len(rows) |-> rows[k].subject]

WeakSubjects(preds) ==
    LET rows == NLargest(NLargestCount, preds)
    IN [k \in 1..Len(rows) |-> rows[k].subject]

RevisionLabel(subject) == "Revision: " \o subject

SecondRevisionSubject(weak_subjects) ==
    IF Len(weak_subjects) > 1 THEN weak_subjects[2] ELSE weak_subjects[1]

SundaySlots(preds, c) ==
    LET weak_subjects == WeakSubjects(preds)
        breakfast_end == c.breakfast_time + c.breakfast_duration
        rev1_end == breakfast_end + RevisionMinutes
        break_end == rev1_end + SundayBreakMinutes
        rev2_end == break_end + RevisionMinutes
        lunch_end == c.lunch_time + c.lunch_duration
        dinner_end == c.dinner_time + c.dinner_duration
    IN << RoutineSlot(c, "Morning Routine"),
          BreakfastSlot(c),
          Slot(breakfast_end, rev1_end, RevisionLabel(weak_subjects[1]),
               "Revision", RevisionMinutes),
          Slot(rev1_end, break_end, "Break", "Break", SundayBreakMinutes),
          Slot(break_end, rev2_end,
               RevisionLabel(SecondRevisionSubject(weak_subjects)),
               "Revision", RevisionMinutes),
          LunchSlot(c),
          Slot(lunch_end, lunch_end + AssessmentMinutes,
               "Mock Test / Practice Problems", "Assessment", AssessmentMinutes),
          DinnerSlot(c),
          Slot(dinner_end, SleepDt(c), "Leisure / Relaxation", "Free",
               SleepDt(c) - dinner_end) >>

(***************************************************************************)
(* generate_smart_timetable as a state machine.                            *)
(***************************************************************************)
NoAssignments == [d \in 1..StudyDays |-> << >>]

EmptyTimetable == [d \in 1..Sunday |-> << >>]

NoAttempts == [d \in 1..StudyDays |-> 0]

\* the locals of a call that is about to run its first statement
CallBegins ==
    /\ pc = "distribute"
    /\ days_per_subject = << >>
    /\ subject_pool = << >>
    /\ pool_index = 0
    /\ day = 1
    /\ subject_assignments = NoAssignments
    /\ attempts = NoAttempts
    /\ timetable = EmptyTimetable
    /\ error = "none"

\* a new browser session on the Home page: st.session_state holds no key of
\* the scheduler page and nothing of it is on screen
SessionBegins ==
    /\ page = "home"
    /\ session_state = {}
    /\ displayed = FALSE

Init ==
    /\ predictions \in PredictionSets
    /\ cfg \in Configs
    /\ CallBegins
    /\ rng = GeneratorAtStartup
    /\ rng_at_call = rng
    /\ history = << >>
    /\ SessionBegins
    /\ store_records = 0
    /\ store_completed = 0

\* days_per_subject = calculate_subject_distribution(predictions)
Distribute ==
    /\ pc = "distribute"
    /\ days_per_subject' = calculate_subject_distribution(predictions)
    /\ pc' = "pool"
    /\ UNCHANGED <<predictions, cfg, subject_pool, pool_index, day,
                   subject_assignments, attempts, timetable, error>>
    /\ UNCHANGED <<generator_vars, page_vars>>

\* the pool is built, the process-global generator is seeded with 42 and
\* shuffles the pool, and pool_index starts at 0
MakePool ==
    /\ pc = "pool"
    /\ subject_pool' = SeededShuffle(BuildPool(days_per_subject))
    /\ rng' = Shuffled(Seeded(ShuffleSeed), Len(BuildPool(days_per_subject)))
    /\ pool_index' = 0
    /\ day' = 1
    /\ pc' = "assign"
    /\ UNCHANGED <<predictions, cfg, days_per_subject, subject_assignments,
                   attempts, timetable, error>>
    /\ UNCHANGED <<rng_at_call, history, page_vars>>

\* one iteration of "for day in days[:-1]" of the distribution loop
AssignDay ==
    /\ pc = "assign"
    /\ LET r == DrawLoop(<< >>, pool_index, 0,
                         SessionsForDay(cfg.max_sessions_per_day), subject_pool)
       IN /\ subject_assignments' = [subject_assignments EXCEPT ![day] = r.day_subjects]
          /\ pool_index' = r.pool_index
          /\ attempts' = [attempts EXCEPT ![day] = r.attempts]
    /\ IF day < StudyDays
       THEN day' = day + 1 /\ pc' = "assign"
       ELSE day' = 1 /\ pc' = "slots"
    /\ UNCHANGED <<predictions, cfg, days_per_subject, subject_pool, timetable, error>>
    /\ UNCHANGED <<generator_vars, page_vars>>

\* one iteration of "for day in days[:-1]" of the slot generation loop
GenerateDay ==
    /\ pc = "slots"
    /\ timetable' = [timetable EXCEPT ![day] = DaySlots(subject_assignments[day], cfg)]
    /\ IF day < StudyDays
       THEN day' = day + 1 /\ pc' = "slots"
       ELSE day' = Sunday /\ pc' = "sunday"
    /\ UNCHANGED <<predictions, cfg, days_per_subject, subject_pool, pool_index,
                   subject_assignments, attempts, error>>
    /\ UNCHANGED <<generator_vars, page_vars>>

\* weak_subjects[0] of an empty list: the call ends with an IndexError and
\* returns nothing (the Monday..Saturday slots stay in the local timetable)
SundayIndexError ==
    /\ pc = "sunday"
    /\ WeakSubjects(predictions) = << >>
    /\ error' = "IndexError"
    /\ pc' = "failed"
    /\ UNCHANGED <<predictions, cfg, days_per_subject, subject_pool, pool_index,
                   day, subject_assignments, attempts, timetable>>
    /\ UNCHANGED <<generator_vars, page_vars>>

\* timetable['Sunday'] = sunday_slots; return timetable
GenerateSunday ==
    /\ pc = "sunday"
    /\ WeakSubjects(predictions) # << >>
    /\ timetable' = [timetable EXCEPT ![Sunday] = SundaySlots(predictions, cfg)]
    /\ pc' = "done"
    /\ UNCHANGED <<predictions, cfg, days_per_subject, subject_pool, pool_index,
                   day, subject_assignments, attempts, error>>
    /\ UNCHANGED <<generator_vars, page_vars>>

Next ==
    \/ Distribute \/ MakePool \/ AssignDay \/ GenerateDay
    \/ SundayIndexError \/ GenerateSunday

Spec == Init /\ [][Next]_vars

(***************************************************************************)
(* The same call made twice in one process: the Generate button runs       *)
(* generate_smart_timetable at every click, and other code of the process  *)
(* may use np.random before and between the calls.                         *)
(***************************************************************************)
\* the configurations the repeated call is explored with
RepeatConfigs ==
    {c \in Configs : /\ c.sleep_time = 1380
                     /\ c.breakfast_time = 450
                     /\ c.session_duration = 60}

InitRepeat ==
    /\ predictions \in PredictionSets
    /\ cfg \in RepeatConfigs
    /\ CallBegins
    /\ rng \in PriorGenerators
    /\ rng_at_call = rng
    /\ history = << >>
    /\ SessionBegins
    /\ store_records = 0
    /\ store_completed = 0

\* other code of the process seeds np.random or draws a shuffle from it
\* between the two calls (one such use, right after the first call)
OtherGeneratorUse ==
    /\ pc = "done"
    /\ history = << >>
    /\ rng = Shuffled(Seeded(ShuffleSeed), Len(subject_pool))
    /\ \E g \in {Seeded(s) : s \in OtherSeeds}
                \cup {Shuffled(rng, n) : n \in OtherShuffles} : rng' = g
    /\ UNCHANGED <<call_vars, rng_at_call, history, page_vars>>

\* the call returned; the same arguments are passed again
CallAgain ==
    /\ pc = "done"
    /\ history = << >>
    /\ history' = <<[rng_before |-> rng_at_call, timetable |-> timetable]>>
    /\ rng_at_call' = rng
    /\ pc' = "distribute"
    /\ days_per_subject' = << >>
    /\ subject_pool' = << >>
    /\ pool_index' = 0
    /\ day' = 1
    /\ subject_assignments' = NoAssignments
    /\ attempts' = NoAttempts
    /\ timetable' = EmptyTimetable
    /\ UNCHANGED <<predictions, cfg, error, rng, page_vars>>

NextRepeat ==
    \/ Distribute \/ MakePool \/ AssignDay \/ GenerateDay
    \/ SundayIndexError \/ GenerateSunday
    \/ OtherGeneratorUse \/ CallAgain

SpecRepeat == InitRepeat /\ [][NextRepeat]_vars

(***************************************************************************)
(* show(), the scheduler page, and the Home page that feeds the store.     *)
(* Every event makes Streamlit run the script again, which renders the    *)
(* page on screen from the store and st.session_state.                     *)
(***************************************************************************)
\* both early returns of show() are passed
EnoughData(records, completed) ==
    records >= MinRecords /\ completed >= MinCompleted

\* a timetable kept in st.session_state is displayed whatever the store holds
ShowsStoredTimetable(records, completed, state) ==
    "ml_scheduler" \in state /\ "timetable" \in state

\* the run of show() reaches display_timetable(st.session_state.timetable)
ShowsTimetable(records, completed, state) ==
    /\ EnoughData(records, completed)
    /\ "ml_scheduler" \in state
    /\ "timetable" \in state

\* what a run of the script puts on screen for page p
Rendering(p, records, completed, state) ==
    p = "scheduler" /\ ShowsTimetable(records, completed, state)

\* the CSV file outlives the browser session: a session begins with any store
InitPage ==
    /\ predictions = << >>
    /\ cfg = DefaultWidgets
    /\ CallBegins
    /\ rng = GeneratorAtStartup
    /\ rng_at_call = rng
    /\ history = << >>
    /\ SessionBegins
    /\ store_records \in 0..MaxRecords
    /\ store_completed \in 0..store_records

\* the form of the Home page: data_handler.add_record, then st.rerun()
AddRecord ==
    /\ page = "home"
    /\ store_records < MaxRecords
    /\ \E final_score \in FinalScores :
          /\ store_records' = store_records + 1
          /\ store_completed' =
                 IF final_score > 0 THEN store_completed + 1 ELSE store_completed
    /\ displayed' = Rendering(page, store_records', store_completed', session_state)
    /\ UNCHANGED <<call_vars, generator_vars, page, session_state>>

\* "Clear All Data" of the Home page (offered when the store is not empty):
\* data_handler.clear_data, then st.rerun()
ClearData ==
    /\ page = "home"
    /\ store_records > 0
    /\ store_records' = 0
    /\ store_completed' = 0
    /\ displayed' = Rendering(page, 0, 0, session_state)
    /\ UNCHANGED <<call_vars, generator_vars, page, session_state>>

\* "Train ML Model": offered past the two early returns
TrainModel ==
    /\ page = "scheduler"
    /\ EnoughData(store_records, store_completed)
    /\ session_state' = session_state \cup {"ml_results", "ml_scheduler"}
    /\ displayed' = Rendering(page, store_records, store_completed, session_state')
    /\ UNCHANGED <<call_vars, generator_vars, page, store_records, store_completed>>

\* "Generate Timetable": offered inside "if 'ml_scheduler' in st.session_state".
\* The week it stores is the result of the call modelled above (here the
\* key alone is kept); the call seeds np.random and shuffles a pool of 1 to
\* 6 tokens for each subject of the store.
GenerateTimetable ==
    /\ page = "scheduler"
    /\ EnoughData(store_records, store_completed)
    /\ "ml_scheduler" \in session_state
    /\ session_state' = session_state \cup {"timetable"}
    /\ \E n \in 1..(MaxDays * store_records) :
          rng' = Shuffled(Seeded(ShuffleSeed), n)
    /\ displayed' = Rendering(page, store_records, store_completed, session_state')
    /\ UNCHANGED <<call_vars, rng_at_call, history, page, store_records,
                   store_completed>>

\* the sidebar radio selects a page, or any other widget event runs the
\* script again on the page that is open
Render ==
    /\ \E p \in Pages :
          /\ page' = p
          /\ displayed' = Rendering(p, store_records, store_completed, session_state)
    /\ UNCHANGED <<call_vars, generator_vars, store_records, store_completed,
                   session_state>>

NextPage ==
    \/ AddRecord \/ ClearData \/ TrainModel \/ GenerateTimetable \/ Render

SpecPage == InitPage /\ [][NextPage]_vars

(***************************************************************************)
(* Properties.                                                             *)
(***************************************************************************)
Generated == pc = "done"

\* the allocation has just been computed (no later step changes it)
Distributed == pc = "pool"

TotalWeakness == SumWeakness(predictions)

Rows == 1..Len(predictions)

\* two slots of a day share some time of the day
Overlap(a, b) == a.start < b.end /\ b.start < a.end

NoTwoOverlap(slots) ==
    \A j \in 1..Len(slots) : \A k \in 1..Len(slots) :
        j < k => ~Overlap(slots[j], slots[k])

NonDecreasingStarts(slots) ==
    \A k \in 1..(Len(slots) - 1) : slots[k].start <= slots[k + 1].start

StrictlyIncreasingStarts(slots) ==
    \A k \in 1..(Len(slots) - 1) : slots[k].start < slots[k + 1].start

SlotsOfType(slots, type) == {k \in 1..Len(slots) : slots[k].type = type}

StudyCount(slots, subject) ==
    Cardinality({k \in SlotsOfType(slots, "Study") : slots[k].subject = subject})

PoolSubjects == {subject_pool[k] : k \in 1..Len(subject_pool)}

\* C1: every Monday-Saturday day schedule of a generated week lists its
\* slots in non-decreasing order of start time and no two slots of the day
\* overlap, for every prediction set and every configuration.
C1_WeekdaysOrderedDisjoint ==
    Generated =>
        \A d \in 1..StudyDays :
            NonDecreasingStarts(timetable[d]) /\ NoTwoOverlap(timetable[d])

\* C2: the Sunday schedule of a generated week is strictly increasing by
\* start time and no two of its slots overlap, for every prediction set and
\* every configuration.
C2_SundayOrderedDisjoint ==
    Generated =>
        StrictlyIncreasingStarts(timetable[Sunday]) /\ NoTwoOverlap(timetable[Sunday])

\* C3: when the pool holds at least two distinct subjects, no subject labels
\* more than two Study blocks of any Monday-Saturday day.
C3_AtMostTwoPerDay ==
    (Generated /\ Cardinality(PoolSubjects) >= 2) =>
        \A d \in 1..StudyDays : \A r \in Rows :
            StudyCount(timetable[d], predictions[r].subject) <= 2

\* a generated week of a pool of two or more subjects in which the cap
\* turned a token down on a day that holds a subject twice
C3_Witness ==
    /\ Generated
    /\ Cardinality(PoolSubjects) >= 2
    /\ \E d \in 1..StudyDays :
          /\ attempts[d] > Len(subject_assignments[d])
          /\ \E r \in Rows : StudyCount(timetable[d], predictions[r].subject) = 2

\* C4: every subject of the input is allocated an integer day count between
\* 1 and 6, whether the total weakness is zero or positive.
C4_DaysBetweenOneAndSix ==
    Distributed =>
        /\ Len(days_per_subject) = Len(predictions)
        /\ \A r \in Rows :
              /\ days_per_subject[r].subject = predictions[r].subject
              /\ days_per_subject[r].days \in 1..6

\* an allocation of positive total weakness in which one subject's scaled
\* share is above 6 and another's is below 1
C4_Witness ==
    /\ Distributed
    /\ TotalWeakness > 0
    /\ \E a \in Rows : \E b \in Rows :
          /\ predictions[a].weakness_score * 12 > 6 * TotalWeakness
          /\ predictions[b].weakness_score * 12 < TotalWeakness
          /\ days_per_subject[a].days = 6
          /\ days_per_subject[b].days = 1

\* C5: with positive total weakness the allocation is monotone: a subject
\* whose weakness is at least another's is allocated at least as many days.
C5_Monotone ==
    (Distributed /\ TotalWeakness > 0) =>
        \A a \in Rows : \A b \in Rows :
            predictions[a].weakness_score >= predictions[b].weakness_score
                => days_per_subject[a].days >= days_per_subject[b].days

\* an allocation in which a weaker subject got strictly more days than a
\* stronger one, neither count being the floor of 1
C5_Witness ==
    /\ Distributed
    /\ TotalWeakness > 0
    /\ \E a \in Rows : \E b \in Rows :
          /\ predictions[a].weakness_score > predictions[b].weakness_score
          /\ days_per_subject[a].days > days_per_subject[b].days
          /\ days_per_subject[b].days > 1

\* C6: when every weakness is 0, every subject is allocated exactly 3 days.
C6_ZeroWeaknessThreeDays ==
    (Distributed /\ \A r \in Rows : predictions[r].weakness_score = 0) =>
        \A r \in Rows : days_per_subject[r].days = 3

\* an allocation of two or more subjects whose weakness is all 0
C6_Witness ==
    /\ Distributed
    /\ Len(predictions) >= 2
    /\ \A r \in Rows : predictions[r].weakness_score = 0
    /\ Len(days_per_subject) = Len(predictions)

Clamp(x, lo, hi) == IF x < lo THEN lo ELSE IF x > hi THEN hi ELSE x

\* x is 12 * weakness / total rounded to the nearest integer
NearestInteger(x, weakness, total) ==
    /\ 2 * x * total - total <= 24 * weakness
    /\ 24 * weakness <= 2 * x * total + total

\* x is 12 * weakness / total truncated
IntegerPart(x, weakness, total) ==
    /\ x * total <= 12 * weakness
    /\ 12 * weakness < (x + 1) * total

\* C7 (as claimed): with positive total weakness every day count is
\* clamp(round(proportion * 12), 1, 6), the scaled share rounded to the
\* nearest integer.
C7_RoundedShare ==
    (Distributed /\ TotalWeakness > 0) =>
        \A r \in Rows : \E x \in 0..12 :
            /\ NearestInteger(x, predictions[r].weakness_score, TotalWeakness)
            /\ days_per_subject[r].days = Clamp(x, 1, 6)

\* C7 (amended): with positive total weakness every day count is
\* clamp(int(proportion * 12), 1, 6), the scaled share truncated to its
\* integer part before clamping.
C7_TruncatedShare ==
    (Distributed /\ TotalWeakness > 0) =>
        \A r \in Rows : \E x \in 0..12 :
            /\ IntegerPart(x, predictions[r].weakness_score, TotalWeakness)
            /\ days_per_subject[r].days = Clamp(x, 1, 6)

\* an allocation with a scaled share between 1 and 6 whose fractional part
\* is above one half: truncation and rounding give different day counts
C7_Witness ==
    /\ Distributed
    /\ TotalWeakness > 0
    /\ \E r \in Rows : \E x \in 1..5 :
          /\ IntegerPart(x, predictions[r].weakness_score, TotalWeakness)
          /\ 2 * ((12 * predictions[r].weakness_score) % TotalWeakness) > TotalWeakness
          /\ days_per_subject[r].days = x

MathAndHistory ==
    predictions = << [subject |-> "Math", weakness_score |-> 240],
                     [subject |-> "History", weakness_score |-> 0] >>

\* C8: for Math (weakness 240) and History (weakness 0), Math is allocated 6
\* days and History 1 day; in general a subject of weakness 0 is allocated
\* exactly 1 day whenever the total weakness is positive.
C8_ZeroShareGetsOneDay ==
    Distributed =>
        /\ MathAndHistory =>
              /\ days_per_subject[1] = [subject |-> "Math", days |-> 6]
              /\ days_per_subject[2] = [subject |-> "History", days |-> 1]
        /\ TotalWeakness > 0 =>
              \A r \in Rows :
                  predictions[r].weakness_score = 0 => days_per_subject[r].days = 1

\* the allocation of the Math / History scenario
C8_Witness ==
    /\ Distributed
    /\ MathAndHistory
    /\ Len(days_per_subject) = 2

\* C9: the Sunday schedule of a generated week holds exactly one Assessment
\* block, which lasts 2 hours, and exactly two Revision blocks.
C9_SundayTemplate ==
    Generated =>
        LET slots == timetable[Sunday] IN
        /\ Cardinality(SlotsOfType(slots, "Assessment")) = 1
        /\ \A k \in SlotsOfType(slots, "Assessment") :
              /\ slots[k].duration = 120
              /\ (slots[k].end - slots[k].start) % MinutesPerDay = 120
        /\ Cardinality(SlotsOfType(slots, "Revision")) = 2

\* a generated week whose Sunday revises two different subjects
C9_Witness ==
    /\ Generated
    /\ \E j \in SlotsOfType(timetable[Sunday], "Revision") :
       \E k \in SlotsOfType(timetable[Sunday], "Revision") :
          timetable[Sunday][j].subject # timetable[Sunday][k].subject

\* the number of rows that come before row r in the order "highest weakness
\* first, equal weakness in input order"
RankOf(r) ==
    Cardinality({l \in Rows :
        \/ predictions[l].weakness_score > predictions[r].weakness_score
        \/ /\ predictions[l].weakness_score = predictions[r].weakness_score
           /\ l < r})

RevisionBlocks ==
    SelectSeq(timetable[Sunday], LAMBDA slot : slot.type = "Revision")

\* C10: Sunday's first Revision block names the subject of highest weakness
\* and the second Revision block the subject of second-highest weakness (the
\* same subject again when there is only one), equal weaknesses being
\* ordered as in the input.
C10_SundayRevisesWeakest ==
    Generated =>
        /\ Len(RevisionBlocks) = 2
        /\ \A r \in Rows :
              RankOf(r) = 0 =>
                  RevisionBlocks[1].subject = "Revision: " \o predictions[r].subject
        /\ \A r \in Rows :
              (RankOf(r) = 1 \/ Len(predictions) = 1) =>
                  RevisionBlocks[2].subject = "Revision: " \o predictions[r].subject

\* a generated week in which the highest weakness is shared by two subjects
\* and the first of them is not the first row of the input
C10_Witness ==
    /\ Generated
    /\ \E a \in Rows : \E b \in Rows :
          /\ 1 < a /\ a < b
          /\ RankOf(a) = 0 /\ RankOf(b) = 1
          /\ predictions[a].weakness_score = predictions[b].weakness_score

\* the call has ended, by returning or by raising
Ended == pc \in {"done", "failed"}

MealCount(slots, label) ==
    Cardinality({k \in SlotsOfType(slots, "Meal") : slots[k].subject = label})

\* wake 06:00, sleep 23:00, breakfast 07:30/30, lunch 13:00/60, dinner
\* 20:00/45, sessions of 1 h, breaks of 30 min, 4 sessions per day
ScenarioConfig ==
    /\ cfg.wake_time = 360 /\ cfg.sleep_time = 1380
    /\ cfg.breakfast_time = 450 /\ cfg.breakfast_duration = 30
    /\ cfg.lunch_time = 780 /\ cfg.lunch_duration = 60
    /\ cfg.dinner_time = 1200 /\ cfg.dinner_duration = 45
    /\ cfg.session_duration = 60 /\ cfg.break_duration = 30
    /\ cfg.max_sessions_per_day = 4

\* C11: with the scenario configuration, every Monday-Saturday day of the
\* generated week holds exactly one Breakfast, exactly one Lunch and exactly
\* one Dinner block, for every non-empty prediction set.
C11_OneOfEachMeal ==
    (Generated /\ ScenarioConfig) =>
        \A d \in 1..StudyDays :
            /\ MealCount(timetable[d], "Breakfast") = 1
            /\ MealCount(timetable[d], "Lunch") = 1
            /\ MealCount(timetable[d], "Dinner") = 1

RECURSIVE SumDurations(_)
SumDurations(slots) ==
    IF slots = << >> THEN 0
    ELSE (IF Head(slots).type \in {"Study", "Break", "Meal", "Routine"}
          THEN Head(slots).duration ELSE 0) + SumDurations(Tail(slots))

\* no block of the day crosses midnight or ends after the effective sleep time
WithinWakingHours(slots) ==
    \A k \in 1..Len(slots) :
        slots[k].start < slots[k].end /\ slots[k].end <= SleepDt(cfg)

\* C12: on every generated Monday-Saturday day none of whose blocks runs
\* past the effective sleep time, the durations of the Study, Break, Meal and
\* Routine blocks sum to at most sleep time - wake time.
C12_DurationsFitTheDay ==
    Generated =>
        \A d \in 1..StudyDays :
            WithinWakingHours(timetable[d]) =>
                SumDurations(timetable[d]) <= SleepDt(cfg) - cfg.wake_time

LastOf(slots) == slots[Len(slots)]

LastMealEnd(slots) ==
    LET meals == SelectSeq(slots, LAMBDA slot : slot.type = "Meal")
    IN LastOf(meals).end

\* C13 (as claimed): on each Monday-Saturday day the first slot starts at
\* wake time, every later slot starts exactly where the previous slot ends,
\* and the last slot ends at the earlier of the last meal's end and sleep
\* time.
C13_Contiguous ==
    Generated =>
        \A d \in 1..StudyDays :
            LET slots == timetable[d] IN
            /\ slots[1].start = HHMM(cfg.wake_time)
            /\ \A k \in 2..Len(slots) : slots[k].start = slots[k - 1].end
            /\ LastOf(slots).end = Min(LastMealEnd(slots), HHMM(SleepDt(cfg)))

\* the configured time of day of a meal
ConfiguredStart(label) ==
    IF label = "Breakfast" THEN HHMM(cfg.breakfast_time)
    ELSE IF label = "Lunch" THEN HHMM(cfg.lunch_time)
    ELSE HHMM(cfg.dinner_time)

\* C13 (amended): on each Monday-Saturday day the first slot starts at wake
\* time and every Study or Break block starts exactly where the previous
\* slot ends; a gap can only precede a Meal block, which starts at its
\* configured time.
C13_GapsOnlyBeforeMeals ==
    Generated =>
        \A d \in 1..StudyDays :
            LET slots == timetable[d] IN
            /\ slots[1].start = HHMM(cfg.wake_time)
            /\ \A k \in 2..Len(slots) :
                  \/ slots[k].start = slots[k - 1].end
                  \/ /\ slots[k].type = "Meal"
                     /\ slots[k].start = ConfiguredStart(slots[k].subject)

\* a generated day in which Lunch is emitted after a gap and the session
\* behind it starts at the end of Lunch
C13_Witness ==
    /\ Generated
    /\ \E d \in 1..StudyDays : \E k \in 3..(Len(timetable[d]) - 1) :
          /\ timetable[d][k].subject = "Lunch"
          /\ timetable[d][k].start > timetable[d][k - 1].end
          /\ timetable[d][k + 1].type = "Study"
          /\ timetable[d][k + 1].start = timetable[d][k].end

\* C14: every slot of every day of a generated week, Sunday's Leisure block
\* included, ends strictly after it starts within the day and has a strictly
\* positive duration.
C14_PositiveSlots ==
    Generated =>
        \A d \in 1..Sunday : \A k \in 1..Len(timetable[d]) :
            /\ timetable[d][k].end > timetable[d][k].start
            /\ timetable[d][k].duration > 0

\* C15: when the pool holds fewer tokens than the week needs
\* (6 * min(max_sessions_per_day, 4)), drawing wraps around to the start of
\* the pool, so every day, also one reached after the last token has been
\* consumed, still draws subject sessions.
C15_Wraparound ==
    (Generated /\ Len(subject_pool) <
                    StudyDays * SessionsForDay(cfg.max_sessions_per_day)) =>
        \A d \in 1..StudyDays : subject_assignments[d] # << >>

\* C16: every Monday-Saturday day is assigned at most
\* min(max_sessions_per_day, 4) drawn subject sessions.
C16_AtMostCapSessions ==
    Generated =>
        \A d \in 1..StudyDays :
            /\ Len(subject_assignments[d]) <= cfg.max_sessions_per_day
            /\ Len(subject_assignments[d]) <= 4

\* a generated week with more than 4 sessions requested and a day that
\* holds exactly 4
C16_Witness ==
    /\ Generated
    /\ cfg.max_sessions_per_day > 4
    /\ \E d \in 1..StudyDays : Len(subject_assignments[d]) = 4

\* the subjects of the prediction set (the labels of drawn sessions)
Subjects == {predictions[r].subject : r \in Rows}

\* slot k of the day is a drawn session that lies over the window of a meal
\* of which no block has been emitted before it
OverUnservedMeal(slots, k, label, meal_time, meal_duration) ==
    /\ slots[k].type = "Study"
    /\ slots[k].subject \in Subjects
    /\ slots[k].start < meal_time + meal_duration
    /\ meal_time < slots[k].end
    /\ \A j \in 1..(k - 1) : slots[j].subject # label

\* C17: a drawn session whose span would intersect the Lunch window (or,
\* after that, the Dinner window) is placed only after the meal has been
\* emitted: no session lies over a meal window whose meal has not been
\* emitted.
C17_NoSessionOverUnservedMeal ==
    Generated =>
        \A d \in 1..StudyDays : \A k \in 1..Len(timetable[d]) :
            /\ ~OverUnservedMeal(timetable[d], k, "Lunch",
                                 cfg.lunch_time, cfg.lunch_duration)
            /\ ~OverUnservedMeal(timetable[d], k, "Dinner",
                                 cfg.dinner_time, cfg.dinner_duration)

\* C18 (as claimed): on every Monday-Saturday day no Study block follows the
\* Dinner block: once emitted, Dinner is the last block of the day.
C18_DinnerIsLast ==
    Generated =>
        \A d \in 1..StudyDays : \A k \in 1..Len(timetable[d]) :
            timetable[d][k].subject = "Dinner" => k = Len(timetable[d])

\* C18 (amended): a Dinner block is the last block of the day unless it was
\* pulled forward in front of a drawn session; that session's Study block
\* then follows it immediately and starts at the end of Dinner.
C18_DinnerLastOrBeforeItsSession ==
    Generated =>
        \A d \in 1..StudyDays : \A k \in 1..Len(timetable[d]) :
            LET slots == timetable[d] IN
            slots[k].subject = "Dinner" =>
                \/ k = Len(slots)
                \/ /\ slots[k + 1].type = "Study"
                   /\ slots[k + 1].subject \in Subjects
                   /\ slots[k + 1].start = slots[k].end

\* a generated day with a Dinner pulled forward in front of a session, and
\* a generated day that ends with its Dinner behind a filler block
C18_Witness ==
    /\ Generated
    /\ \E d \in 1..StudyDays : \E k \in 1..(Len(timetable[d]) - 1) :
          /\ timetable[d][k].subject = "Dinner"
          /\ timetable[d][k + 1].type = "Study"
    /\ \E d \in 1..StudyDays :
          /\ LastOf(timetable[d]).subject = "Dinner"
          /\ timetable[d][Len(timetable[d]) - 1].subject = "Self-Study / Review"

\* the prediction set is empty or holds a negative weakness
InvalidPredictions ==
    \/ predictions = << >>
    \/ \E r \in Rows : predictions[r].weakness_score < 0

\* C19: for an empty prediction set, or one with a negative weakness, the
\* ranker fails with InvalidInput instead of returning an allocation.
C19_RankerRejectsInvalidInput ==
    (InvalidPredictions /\ pc # "distribute") => error = "InvalidInput"

\* C20: for an empty prediction set the builder fails with the structured
\* InsufficientData error and has produced no partial schedule.
C20_BuilderRejectsEmpty ==
    (predictions = << >> /\ Ended) =>
        /\ pc = "failed"
        /\ error = "InsufficientData"
        /\ timetable = EmptyTimetable

\* C21: for every non-empty prediction set and every configuration, the
\* degenerate ones included (a session longer than the gap between breakfast
\* and lunch, sessions running past sleep time, a pool of a single subject),
\* the call ends without error and returns a week of exactly the 7 entries
\* Monday..Sunday, each of them filled.
C21_SevenDaysWithoutError ==
    (Ended /\ predictions # << >>) =>
        /\ pc = "done"
        /\ error = "none"
        /\ DOMAIN timetable = 1..Sunday
        /\ \A d \in 1..Sunday : timetable[d] # << >>

\* a returned week of a single subject, with sessions of 2 h that do not fit
\* between the end of breakfast (11:30) and lunch (13:00) and a day that
\* runs past the sleep time of 20:45
C21_Witness ==
    /\ Generated
    /\ Len(predictions) = 1
    /\ cfg.session_duration > cfg.lunch_time - (cfg.breakfast_time + cfg.breakfast_duration)
    /\ \E d \in 1..StudyDays : \E k \in SlotsOfType(timetable[d], "Study") :
          timetable[d][k].start >= HHMM(cfg.sleep_time)

\* C22 (as claimed): when a day cannot be diversified (a pool of a single
\* subject), the builder accepts repeats of the subject beyond the cap of 2,
\* so that the day still receives its sessions: Monday of a single-subject
\* week holds as many sessions as requested, as far as the pool has tokens.
C22_RepeatBeyondCap ==
    (Generated /\ Cardinality(PoolSubjects) = 1) =>
        Len(subject_assignments[1]) =
            Min(SessionsForDay(cfg.max_sessions_per_day), Len(subject_pool))

\* C22 (amended): the cap of 2 sessions of one subject per day is never
\* relaxed and the budget of 20 attempts is never used up: a day that holds
\* fewer sessions than requested is a day on which the pool ran out.
C22_CapNeverRelaxed ==
    Generated =>
        \A d \in 1..StudyDays :
            /\ \A subject \in Subjects :
                  /\ Count(subject_assignments[d], subject) <= 2
                  /\ StudyCount(timetable[d], subject) <= 2
            /\ attempts[d] < AttemptBudget
            /\ Len(subject_assignments[d]) < SessionsForDay(cfg.max_sessions_per_day)
                  => pool_index = Len(subject_pool)

\* a single-subject week whose Monday was asked for more than 2 sessions,
\* had tokens for them, turned tokens down and holds 2 sessions
C22_Witness ==
    /\ Generated
    /\ Cardinality(PoolSubjects) = 1
    /\ SessionsForDay(cfg.max_sessions_per_day) > 2
    /\ Len(subject_pool) > 2
    /\ attempts[1] > Len(subject_assignments[1])
    /\ Len(subject_assignments[1]) = 2

C24_GlobalGeneratorUntouched ==
    Ended => rng = rng_at_call

\* all attempts of the week
WeekAttempts ==
    attempts[1] + attempts[2] + attempts[3] + attempts[4] + attempts[5] + attempts[6]

\* C25: the drawing loop of every day ends, for every pool (a single-subject
\* pool and the empty pool included), after at most 20 attempts, and the
\* assignment of the week after at most 6 x 20 attempts.
C25_BoundedAttempts ==
    Ended =>
        /\ \A d \in 1..StudyDays : attempts[d] <= AttemptBudget
        /\ WeekAttempts <= StudyDays * AttemptBudget

\* a week drawn from a single-subject pool in which Monday's loop went on
\* after the day was full of that subject
C25_Witness ==
    /\ Generated
    /\ Cardinality(PoolSubjects) = 1
    /\ Count(subject_assignments[1], subject_pool[1]) = MaxSamePerDay
    /\ attempts[1] > Len(subject_assignments[1])

\* the places of the day's drawn sessions among its slots
DrawnBlocks(slots) ==
    {k \in SlotsOfType(slots, "Study") : slots[k].subject \in Subjects}

\* C26: on every Monday-Saturday day with n drawn sessions, each drawn
\* session but the last is immediately followed by a Break block of
\* break_duration minutes that starts at the session's end, no Break follows
\* the last drawn session, and the day holds exactly max(0, n - 1) Breaks.
C26_BreakAfterAllButLast ==
    Generated =>
        \A d \in 1..StudyDays :
            LET slots == timetable[d]
                n == Len(subject_assignments[d])
                drawn == DrawnBlocks(slots)
            IN /\ Cardinality(drawn) = n
               /\ Cardinality(SlotsOfType(slots, "Break")) = Max(0, n - 1)
               /\ \A k \in drawn :
                     IF \E j \in drawn : j > k
                     THEN /\ slots[k + 1].type = "Break"
                          /\ slots[k + 1].start = slots[k].end
                          /\ slots[k + 1].duration = cfg.break_duration
                          /\ slots[k + 1].end =
                                 HHMM(slots[k].end + cfg.break_duration)
                     ELSE k = Len(slots) \/ slots[k + 1].type # "Break"

\* a week with a day of 4 drawn sessions and Lunch among them, a day of one
\* session and a day without any
C26_Witness ==
    /\ Generated
    /\ \E d \in 1..StudyDays :
          /\ Len(subject_assignments[d]) = 4
          /\ MealCount(timetable[d], "Lunch") = 1
    /\ \E d \in 1..StudyDays : Len(subject_assignments[d]) = 1
    /\ \E d \in 1..StudyDays : Len(subject_assignments[d]) = 0

\* C27: whatever records were added or cleared, models trained, timetables
\* generated and pages rendered before, the page on screen shows a timetable
\* only if it is the scheduler page and the store, as that rendering loaded
\* it, holds at least 5 records and at least 3 records with final_score > 0.
C27_TimetableOnlyWithEnoughData ==
    displayed =>
        /\ page = "scheduler"
        /\ store_records >= 5
        /\ store_completed >= 3

\* the scheduler page is on screen with a timetable of an earlier rendering
\* in st.session_state, the store has fallen below 5 records, and the
\* timetable is not shown
C27_Witness ==
    /\ page = "scheduler"
    /\ "timetable" \in session_state
    /\ store_records < 5
    /\ ~displayed

\* the sessions drawn in the week
WeekDrawn ==
    Len(subject_assignments[1]) + Len(subject_assignments[2])
        + Len(subject_assignments[3]) + Len(subject_assignments[4])
        + Len(subject_assignments[5]) + Len(subject_assignments[6])

\* the Study blocks of a subject over Monday..Saturday
WeekStudyCount(subject) ==
    StudyCount(timetable[1], subject) + StudyCount(timetable[2], subject)
        + StudyCount(timetable[3], subject) + StudyCount(timetable[4], subject)
        + StudyCount(timetable[5], subject) + StudyCount(timetable[6], subject)

\* C28: every token of the pool is drawn at most once in a build: each
\* attempt moves the pool index one token forward (a token turned down by
\* the cap is not tried again) and the index never passes the end of the
\* pool; so a subject labels at most as many Study blocks over
\* Monday..Saturday as it was allocated days, and the drawn sessions of the
\* week are at most as many as the tokens of the pool.
C28_TokensDrawnOnce ==
    Generated =>
        /\ pool_index = WeekAttempts
        /\ pool_index <= Len(subject_pool)
        /\ WeekDrawn <= Len(subject_pool)
        /\ \A r \in 1..Len(days_per_subject) :
              WeekStudyCount(days_per_subject[r].subject) <= days_per_subject[r].days

\* a week of two or more subjects in which the cap turned tokens down and
\* a subject got fewer Study blocks than the days allocated to it
C28_Witness ==
    /\ Generated
    /\ Cardinality(PoolSubjects) >= 2
    /\ WeekAttempts > WeekDrawn
    /\ \E r \in 1..Len(days_per_subject) :
          WeekStudyCount(days_per_subject[r].subject) < days_per_subject[r].days

\* the blocks of a meal are the block the configuration describes
MealAsConfigured(slots, label, meal_time, meal_duration) ==
    \A k \in SlotsOfType(slots, "Meal") :
        slots[k].subject = label =>
            /\ slots[k].start = HHMM(meal_time)
            /\ slots[k].end = HHMM(meal_time + meal_duration)
            /\ slots[k].duration = meal_duration

\* C29: for every configuration, each Monday-Saturday day holds at most one
\* Lunch block and at most one Dinner block, and every Lunch or Dinner block
\* starts at its configured time and lasts its configured duration.
C29_MealsAtMostOnceAsConfigured ==
    Generated =>
        \A d \in 1..StudyDays :
            /\ MealCount(timetable[d], "Lunch") <= 1
            /\ MealCount(timetable[d], "Dinner") <= 1
            /\ MealAsConfigured(timetable[d], "Lunch", cfg.lunch_time,
                                cfg.lunch_duration)
            /\ MealAsConfigured(timetable[d], "Dinner", cfg.dinner_time,
                                cfg.dinner_duration)

\* a day whose sessions run from before Lunch to after Dinner: both meals
\* were put in front of a session, and sessions follow Dinner
C29_Witness ==
    /\ Generated
    /\ \E d \in 1..StudyDays :
          /\ MealCount(timetable[d], "Lunch") = 1
          /\ MealCount(timetable[d], "Dinner") = 1
          /\ LastOf(timetable[d]).type = "Study"

\* C30: no subject is starved: for every non-empty prediction set and every
\* max_sessions_per_day, every subject of the allocation labels at least one
\* Study block on some Monday-Saturday day of the returned week.
C30_NoSubjectStarved ==
    Generated =>
        \A r \in 1..Len(days_per_subject) :
            WeekStudyCount(days_per_subject[r].subject) >= 1
====
